---- MODULE Spec2Model ----
(***************************************************************************)
(* State-machine model of the ion-select component                         *)
(* (core/src/components/select/select.tsx).                                *)
(*                                                                         *)
(* The component's fields are the variables; every lifecycle callback,     *)
(* event listener, public method and overlay button handler is one action. *)
(* The promise-returning openPopover/openActionSheet/openAlert are split   *)
(* at their two awaits (create, present).                                  *)
(*                                                                         *)
(* The host and the user are explored in two scenarios, chosen by Init:    *)
(* in "options" the host adds, removes and checks options and assigns the  *)
(* value of a select with the default props; in "overlays" a select of any *)
(* interface, with its options in place, is opened and its overlays are    *)
(* used.  The handlers are the same in both.                               *)
(***************************************************************************)
EXTENDS Integers, Sequences, FiniteSets, TLC

\* Number of ion-select-option elements the host may project into the select.
MaxOpts == 2

\* Number of open() calls explored in one behaviour.
MaxOpens == 2

Opts == 1..MaxOpts

Overlays == 1..MaxOpens

\* The option values the host may give to an ion-select-option.
Vals == {"a", "b"}

-----------------------------------------------------------------------------
(* JavaScript values held by the `value` prop.  An array assigned by       *)
(* `this.value = [...]` is always a fresh object, so it is never === to    *)
(* the array it replaces; array contents are kept in elems.                *)

Undef == [kind |-> "undefined", v |-> "", elems |-> <<>>]

Null == [kind |-> "null", v |-> "", elems |-> <<>>]

Prim(s) == [kind |-> "prim", v |-> s, elems |-> <<>>]

Arr(q) == [kind |-> "array", v |-> "", elems |-> q]

IsArray(x) == x.kind = "array"

\* === between the old and the new value of a prop.
StrictEq(x, y) == ~IsArray(x) /\ x = y

\* !value
Falsy(x) == x.kind \in {"undefined", "null"} \/ (x.kind = "prim" /\ x.v = "")

\* (Array.isArray(value) ? value : [value]).includes(s), s an option value
ValuesInclude(x, s) ==
    IF IsArray(x) THEN \E k \in 1..Len(x.elems) : x.elems[k] = s
    ELSE x.kind = "prim" /\ x.v = s

\* textContent of option o
OptText(o) == "opt" \o ToString(o)

RECURSIVE Join(_)
\* texts.join(', ')
Join(texts) ==
    IF Len(texts) = 0 THEN ""
    ELSE IF Len(texts) = 1 THEN texts[1]
    ELSE texts[1] \o ", " \o Join(Tail(texts))

RECURSIVE SortedSeq(_)
\* the elements of a set of options, in document order
SortedSeq(S) ==
    IF S = {} THEN <<>>
    ELSE LET m == CHOOSE x \in S : \A y \in S : x <= y
         IN <<m>> \o SortedSeq(S \ {m})

-----------------------------------------------------------------------------
VARIABLES
    scenario,    \* what the host explores: "options" (it adds and removes
                 \* options) or "overlays" (it opens the select)
    phase,       \* lifecycle: "constructed", "willLoad", "loaded"
    multiple,    \* @Prop multiple
    interface,   \* @Prop interface
    disabled,    \* @Prop disabled
    optVal,      \* value prop of each ion-select-option element
    optState,    \* each option element: "absent", "inserted", "loaded"
    cmp,         \* the component: value, childOpts, text, the options'
                 \* selected flags, the events emitted by the running handler
                 \* and the state valueChanged left when it last returned
    isExpanded,  \* @State isExpanded
    overlay,     \* this.overlay: 0 (undefined) or an overlay
    ov,          \* the overlays created by open()
    nOpens,      \* number of open() calls so far
    lastOp       \* the handler that ran last

vars == <<scenario, phase, multiple, interface, disabled, optVal, optState, cmp,
          isExpanded, overlay, ov, nOpens, lastOp>>

props == <<scenario, multiple, interface, disabled, optVal>>

NoPost == [ran |-> FALSE, value |-> Undef, childOpts |-> <<>>,
           selected |-> [o \in Opts |-> FALSE], text |-> ""]

NoOverlay == [pc |-> "unused", kind |-> "none", snap |-> <<>>,
              vis |-> "hidden"]

\* The component at the start of a handler: nothing emitted yet.
Begin == [cmp EXCEPT !.emitted = <<>>, !.post = NoPost]

-----------------------------------------------------------------------------
\* hasValue()
hasValue(c) ==
    IF IsArray(c.value) THEN Len(c.value.elems) > 0
    ELSE ~(c.value.kind \in {"undefined", "null"}) /\ c.value # Prim("")

\* emitStyle()
emitStyle(c) ==
    [c EXCEPT !.emitted = Append(@, [type |-> "ionStyle",
                                     hasValue |-> hasValue(c),
                                     disabled |-> disabled])]

RECURSIVE ScanOptsNoHasChecked(_, _, _, _, _)
\* ScanOpts without the hasChecked test: every matching option is checked,
\* also when multiple is false.
ScanOptsNoHasChecked(c, k, hasChecked, sel, texts) ==
    IF k > Len(c.childOpts) THEN [sel |-> sel, texts |-> texts]
    ELSE LET o == c.childOpts[k]
         IN IF ValuesInclude(c.value, optVal[o])
            THEN ScanOptsNoHasChecked(c, k + 1, TRUE, [sel EXCEPT ![o] = TRUE],
                                      Append(texts, OptText(o)))
            ELSE ScanOptsNoHasChecked(c, k + 1, hasChecked,
                                      [sel EXCEPT ![o] = FALSE], texts)

RECURSIVE ScanOpts(_, _, _, _, _)
\* the forEach of valueChanged from option index k on
ScanOpts(c, k, hasChecked, sel, texts) ==
    IF k > Len(c.childOpts) THEN [sel |-> sel, texts |-> texts]
    ELSE LET o == c.childOpts[k]
             selected == ValuesInclude(c.value, optVal[o])
         IN IF selected /\ (multiple \/ ~hasChecked)
            THEN ScanOpts(c, k + 1, TRUE, [sel EXCEPT ![o] = TRUE],
                          Append(texts, OptText(o)))
            ELSE ScanOpts(c, k + 1, hasChecked, [sel EXCEPT ![o] = FALSE],
                          texts)

\* @Watch('value') valueChanged()
valueChanged(c) ==
    LET r == ScanOpts(c, 1, FALSE, c.selected, <<>>)
        c1 == [c EXCEPT !.selected = r.sel, !.text = Join(r.texts)]
        c2 == [c1 EXCEPT !.emitted = Append(@, [type |-> "ionChange",
                                                text |-> c1.text,
                                                value |-> c1.value])]
        c3 == emitStyle(c2)
    IN [c3 EXCEPT !.post = [ran |-> TRUE, value |-> c3.value,
                            childOpts |-> c3.childOpts,
                            selected |-> c3.selected, text |-> c3.text]]

\* this.value = x : the prop setter calls the watcher when x !== this.value
SetValue(c, x) ==
    IF StrictEq(x, c.value) THEN c
    ELSE valueChanged([c EXCEPT !.value = x])

-----------------------------------------------------------------------------
\* The component after construction, its value attribute being x.
NewSelect(x) ==
    /\ phase = "constructed"
    /\ cmp = [value |-> x, childOpts |-> <<>>,
              selected |-> [o \in Opts |-> FALSE], text |-> "",
              emitted |-> <<>>, post |-> NoPost]
    /\ isExpanded = FALSE
    /\ overlay = 0
    /\ ov = [i \in Overlays |-> NoOverlay]
    /\ nOpens = 0
    /\ lastOp = "new"

\* Scenario "options": a select with the default interface, enabled, whose
\* host adds and removes options, checks them and assigns the value.
InitOptions ==
    /\ scenario = "options"
    /\ multiple \in BOOLEAN
    /\ interface = "alert"
    /\ disabled = FALSE
    /\ optVal \in [Opts -> Vals]
    /\ optState = [o \in Opts |-> "absent"]
    /\ \E x \in (IF multiple THEN {Undef, Arr(<<"b">>)} ELSE {Undef, Prim("a")}) :
         NewSelect(x)

\* Scenario "overlays": a select of any interface, single or multiple, enabled
\* or disabled, with its options in place from the first render, whose user
\* checks options and opens it.
InitOverlays ==
    /\ scenario = "overlays"
    /\ multiple \in BOOLEAN
    /\ interface \in {"alert", "action-sheet", "popover"}
    /\ disabled \in BOOLEAN
    /\ optVal = [o \in Opts |-> IF o % 2 = 1 THEN "a" ELSE "b"]
    /\ optState = [o \in Opts |-> "inserted"]
    /\ NewSelect(Undef)

Init == InitOptions \/ InitOverlays

\* componentWillLoad()
ComponentWillLoad ==
    /\ phase = "constructed"
    /\ phase' = "willLoad"
    /\ cmp' = IF Falsy(cmp.value)
              THEN SetValue(Begin, IF multiple THEN Arr(<<>>) ELSE Undef)
              ELSE Begin
    /\ lastOp' = "componentWillLoad"
    /\ UNCHANGED <<props, optState, isExpanded, overlay, ov, nOpens>>

\* this.el.querySelectorAll('ion-select-option'), st the option elements
QueryOptions(st) == SortedSeq({o \in Opts : st[o] # "absent"})

RECURSIVE SelectedOpts(_, _)
\* childOpts.filter(o => o.selected), from option index k on
SelectedOpts(c, k) ==
    IF k > Len(c.childOpts) THEN <<>>
    ELSE IF c.selected[c.childOpts[k]]
         THEN <<c.childOpts[k]>> \o SelectedOpts(c, k + 1)
         ELSE SelectedOpts(c, k + 1)

\* .map(o => o.value)
MapValue(os) == [k \in 1..Len(os) |-> optVal[os[k]]]

\* .map(o => o.textContent)
MapText(os) == [k \in 1..Len(os) |-> OptText(os[k])]

\* optLoad(ev), ev.target = o, st the option elements in the document
optLoad(c, o, st) ==
    LET c1 == [c EXCEPT !.childOpts = QueryOptions(st)]
        c2 == IF multiple
              THEN SetValue(c1, Arr(MapValue(SelectedOpts(c1, 1))))
              ELSE c1
        s == optVal[o]
    IN IF \/ /\ ~(c2.value.kind \in {"undefined", "null"})
             /\ IsArray(c2.value) /\ ValuesInclude(c2.value, s)
          \/ Prim(s) = c2.value
       THEN [c2 EXCEPT !.selected[o] = TRUE]
       ELSE IF IsArray(c2.value) /\ multiple /\ c2.selected[o]
       THEN [c2 EXCEPT !.value = Arr(Append(@.elems, s))]
       ELSE IF c2.value = Undef /\ c2.selected[o]
       THEN SetValue(c2, Prim(s))
       ELSE IF c2.selected[o]
       THEN [c2 EXCEPT !.selected[o] = FALSE]
       ELSE c2

RECURSIVE onSelect(_, _, _)
\* onSelect(ev), ev.target = target: the forEach from option index k on
onSelect(c, k, target) ==
    IF k > Len(c.childOpts) THEN c
    ELSE LET o == c.childOpts[k]
         IN IF o = target
            THEN onSelect(SetValue(c, Prim(optVal[o])), k + 1, target)
            ELSE onSelect([c EXCEPT !.selected[o] = FALSE], k + 1, target)

\* componentDidLoad()
componentDidLoad(c) ==
    LET checked == SelectedOpts(c, 1)
    IN IF multiple
       THEN emitStyle([c EXCEPT !.value = Arr(MapValue(checked)),
                                !.text = Join(MapText(checked))])
       ELSE IF Len(checked) > 0
            THEN emitStyle([SetValue(c, Prim(optVal[checked[1]]))
                               EXCEPT !.text = OptText(checked[1])])
            ELSE emitStyle(c)

\* The host puts an ion-select-option element, selected or not, in the select.
InsertOption(o, sel) ==
    /\ scenario = "options"
    /\ optState[o] = "absent"
    /\ optState' = [optState EXCEPT ![o] = "inserted"]
    /\ cmp' = [Begin EXCEPT !.selected[o] = sel]
    /\ lastOp' = "insertOption"
    /\ UNCHANGED <<phase, props, isExpanded, overlay, ov, nOpens>>

\* @Listen('ionSelectOptionDidLoad'): option o has loaded.
OptionDidLoad(o) ==
    /\ phase # "constructed"
    /\ optState[o] = "inserted"
    /\ optState' = [optState EXCEPT ![o] = "loaded"]
    /\ cmp' = optLoad(Begin, o, optState')
    /\ lastOp' = "optLoad"
    /\ UNCHANGED <<phase, props, isExpanded, overlay, ov, nOpens>>

\* @Listen('ionSelectOptionDidUnload'): the host took option o out of the
\* document; the element is gone, with its selected flag.
OptionDidUnload(o) ==
    /\ scenario = "options"
    /\ phase # "constructed"
    /\ optState[o] = "loaded"
    /\ optState' = [optState EXCEPT ![o] = "absent"]
    /\ cmp' = [optLoad(Begin, o, optState') EXCEPT !.selected[o] = FALSE]
    /\ lastOp' = "optUnload"
    /\ UNCHANGED <<phase, props, isExpanded, overlay, ov, nOpens>>

\* @Listen('ionSelect'): the event comes from option o, which is checked.
OnSelect(o) ==
    /\ phase = "loaded"
    /\ optState[o] = "loaded"
    /\ cmp' = onSelect([Begin EXCEPT !.selected[o] = TRUE], 1, o)
    /\ lastOp' = "onSelect"
    /\ UNCHANGED <<phase, props, optState, isExpanded, overlay, ov, nOpens>>

\* componentDidLoad(): runs once the options of the first render have loaded.
\* With multiple the value is an array here: componentWillLoad and optLoad
\* leave no other value.
ComponentDidLoad ==
    /\ phase = "willLoad"
    /\ \A o \in Opts : optState[o] # "inserted"
    /\ multiple => IsArray(cmp.value)
    /\ phase' = "loaded"
    /\ cmp' = componentDidLoad(Begin)
    /\ lastOp' = "componentDidLoad"
    /\ UNCHANGED <<props, optState, isExpanded, overlay, ov, nOpens>>

\* The values a host assigns to the value prop.
HostValues ==
    {Undef, Null} \cup {Prim(s) : s \in Vals}
    \cup {Arr(q) : q \in {<<>>, <<"a">>, <<"b">>, <<"a", "b">>}}

\* The host assigns x to the value prop.
HostSetValue(x) ==
    /\ scenario = "options"
    /\ phase = "loaded"
    /\ cmp' = SetValue(Begin, x)
    /\ lastOp' = "setValue"
    /\ UNCHANGED <<phase, props, optState, isExpanded, overlay, ov, nOpens>>

-----------------------------------------------------------------------------
\* SelectInterface without the fallback of a multi-value select to the alert.
SelectInterfaceIgnoresMultiple(ev) ==
    IF interface = "popover" /\ ev THEN "popover"
    ELSE IF interface = "action-sheet" THEN "action-sheet"
    ELSE "alert"

\* open(ev): the interface open() settles on; ev says whether an event is given
SelectInterface(ev) ==
    LET i1 == IF interface \in {"action-sheet", "popover"} /\ multiple
              THEN "alert" ELSE interface
        i2 == IF i1 = "popover" /\ ~ev THEN "alert" ELSE i1
    IN IF i2 = "popover" THEN "popover"
       ELSE IF i2 = "action-sheet" THEN "action-sheet"
       ELSE "alert"

\* open(ev) up to the first await of openPopover / openActionSheet / openAlert:
\* the options and handlers are built from childOpts and create() is called.
\* A click on the cover button is open(ev) with the click event.
Open(ev) ==
    /\ scenario = "overlays"
    /\ phase = "loaded"
    /\ nOpens < MaxOpens
    /\ nOpens' = nOpens + 1
    /\ ov' = [ov EXCEPT ![nOpens + 1] =
                [pc |-> "create", kind |-> SelectInterface(ev),
                 snap |-> cmp.childOpts, vis |-> "hidden"]]
    /\ cmp' = Begin
    /\ lastOp' = IF ev THEN "click" ELSE "open"
    /\ UNCHANGED <<phase, props, optState, isExpanded, overlay>>

\* `this.overlay = await ctrl.create(opts)` resumes; present() is called.
CreateResolved(i) ==
    /\ ov[i].pc = "create"
    /\ overlay' = i
    /\ ov' = [ov EXCEPT ![i].pc = "present"]
    /\ cmp' = Begin
    /\ lastOp' = "created"
    /\ UNCHANGED <<phase, props, optState, isExpanded, nOpens>>

\* `await overlay.present()` resumes: isExpanded = true.  An overlay that was
\* dismissed while it was being presented may or may not show.
PresentResolved(i, shows) ==
    /\ ov[i].pc = "present"
    /\ shows \/ ov[i].vis = "dismissed"
    /\ ov' = [ov EXCEPT ![i].pc = "done",
                        ![i].vis = IF shows THEN "shown" ELSE "dismissed"]
    /\ isExpanded' = TRUE
    /\ cmp' = Begin
    /\ lastOp' = "presented"
    /\ UNCHANGED <<phase, props, optState, overlay, nOpens>>

\* overlay.dismiss()
Dismissed(o, i) == [o EXCEPT ![i].vis = "dismissed"]

\* close()
close ==
    IF overlay = 0
    THEN UNCHANGED <<overlay, isExpanded, ov>>
    ELSE /\ overlay' = 0
         /\ isExpanded' = FALSE
         /\ ov' = Dismissed(ov, overlay)

\* An alert or an action sheet leaves the screen once one of its buttons was
\* pressed and the button's handler has run.
ButtonDismisses(o, i) == [o EXCEPT ![i].vis = "dismissed"]

\* openPopover: handler of the k-th option
PopoverOption(i, k) ==
    /\ ov[i].kind = "popover" /\ ov[i].vis = "shown"
    /\ k \in 1..Len(ov[i].snap)
    /\ cmp' = SetValue(Begin, Prim(optVal[ov[i].snap[k]]))
    /\ close
    /\ lastOp' = "popoverOption"
    /\ UNCHANGED <<phase, props, optState, nOpens>>

\* openActionSheet: handler of the k-th option button
ActionSheetOption(i, k) ==
    /\ ov[i].kind = "action-sheet" /\ ov[i].vis = "shown"
    /\ k \in 1..Len(ov[i].snap)
    /\ cmp' = SetValue(Begin, Prim(optVal[ov[i].snap[k]]))
    /\ ov' = ButtonDismisses(ov, i)
    /\ lastOp' = "actionSheetOption"
    /\ UNCHANGED <<phase, props, optState, isExpanded, overlay, nOpens>>

\* The selectedValues an alert over the inputs os hands to its OK handler:
\* the checked radio's value or undefined, or the array of the checked boxes.
AlertValues(os) ==
    IF multiple
    THEN {Arr(MapValue(SortedSeq(K))) : K \in SUBSET {os[k] : k \in 1..Len(os)}}
    ELSE {Undef} \cup {Prim(optVal[os[k]]) : k \in 1..Len(os)}

\* Every selectedValues an alert can hand over, whatever its inputs.
AlertResults ==
    {Undef} \cup {Prim(s) : s \in Vals}
    \cup {Arr(q) : q \in UNION {[1..n -> Vals] : n \in 0..MaxOpts}}

\* openAlert: handler of the OK button
AlertOk(i, x) ==
    /\ ov[i].kind = "alert" /\ ov[i].vis = "shown"
    /\ x \in AlertValues(ov[i].snap)
    /\ cmp' = SetValue(Begin, x)
    /\ ov' = ButtonDismisses(ov, i)
    /\ lastOp' = "alertOk"
    /\ UNCHANGED <<phase, props, optState, isExpanded, overlay, nOpens>>

\* cancelHandler that also clears the value.
cancelHandlerClearsValue(c) ==
    LET c1 == [c EXCEPT !.emitted = Append(@, [type |-> "ionCancel"])]
    IN IF StrictEq(Undef, c1.value) THEN c1
       ELSE [c1 EXCEPT !.value = Undef, !.text = "",
                       !.selected = [o \in Opts |-> FALSE]]

\* handler of the cancel button of openActionSheet and of openAlert
cancelHandler(c) == [c EXCEPT !.emitted = Append(@, [type |-> "ionCancel"])]

\* The cancel button of an action sheet or an alert is pressed.
Cancel(i) ==
    /\ ov[i].kind \in {"action-sheet", "alert"} /\ ov[i].vis = "shown"
    /\ cmp' = cancelHandler(Begin)
    /\ ov' = ButtonDismisses(ov, i)
    /\ lastOp' = "cancel"
    /\ UNCHANGED <<phase, props, optState, isExpanded, overlay, nOpens>>

Next ==
    \/ ComponentWillLoad
    \/ \E o \in Opts, sel \in BOOLEAN : InsertOption(o, sel)
    \/ \E o \in Opts : OptionDidLoad(o)
    \/ \E o \in Opts : OptionDidUnload(o)
    \/ ComponentDidLoad
    \/ \E o \in Opts : OnSelect(o)
    \/ \E x \in HostValues : HostSetValue(x)
    \/ \E ev \in BOOLEAN : Open(ev)
    \/ \E i \in Overlays : CreateResolved(i)
    \/ \E i \in Overlays, shows \in BOOLEAN : PresentResolved(i, shows)
    \/ \E i \in Overlays, k \in 1..MaxOpts : PopoverOption(i, k)
    \/ \E i \in Overlays, k \in 1..MaxOpts : ActionSheetOption(i, k)
    \/ \E i \in Overlays, x \in AlertResults : AlertOk(i, x)
    \/ \E i \in Overlays : Cancel(i)

Spec == Init /\ [][Next]_vars

-----------------------------------------------------------------------------
(* The claims.                                                             *)

\* the events of type t among es
OfType(es, t) == SelectSeq(es, LAMBDA e : e.type = t)

\* the texts of the selected options of c, joined
SelectedText(c) == Join(MapText(SelectedOpts(c, 1)))

\* the overlays that are presented
Shown == {i \in Overlays : ov[i].vis = "shown"}

\* C1: open(ev) starts exactly one overlay: the popover if interface is
\* 'popover', multiple is false and ev is given; the action sheet if interface
\* is 'action-sheet' and multiple is false; the alert in every other case.
C1_OpenPresentsChosenInterface ==
    [][nOpens' # nOpens =>
         LET ev == lastOp' = "click"
             want == IF interface = "popover" /\ ~multiple /\ ev THEN "popover"
                     ELSE IF interface = "action-sheet" /\ ~multiple
                          THEN "action-sheet"
                          ELSE "alert"
         IN /\ nOpens' = nOpens + 1
            /\ lastOp' \in {"click", "open"}
            /\ ov[nOpens'].pc = "unused"
            /\ ov'[nOpens'].pc = "create"
            /\ ov'[nOpens'].kind = want
            /\ \A j \in Overlays \ {nOpens'} : ov'[j] = ov[j]]_vars

\* C1 witness: a single-value select with the popover interface was opened
\* with an event (popover) and without one (alert).
C1_Witness ==
    /\ interface = "popover" /\ ~multiple
    /\ \E i, j \in Overlays : ov[i].kind = "popover" /\ ov[j].kind = "alert"

\* C2: every handler that changes the value emits exactly one ionChange,
\* carrying the new value and the joined text of the selected options, and a
\* handler that leaves the value as it was emits no ionChange.
C2_EveryChangeEmitsOneIonChange ==
    [][LET changes == OfType(cmp'.emitted, "ionChange")
       IN IF cmp'.value # cmp.value
          THEN changes = <<[type |-> "ionChange", text |-> SelectedText(cmp'),
                            value |-> cmp'.value]>>
          ELSE changes = <<>>]_vars

\* C3: once an option, OK or cancel handler of an overlay has run, the overlay
\* reference is cleared and isExpanded is false; isExpanded is true exactly
\* while an overlay of this select is presented.
C3_HandlersCloseTheOverlay ==
    /\ lastOp \in {"popoverOption", "actionSheetOption", "alertOk", "cancel"}
         => overlay = 0 /\ ~isExpanded
    /\ isExpanded <=> Shown # {}

\* C4: while disabled is true, a click on the cover button starts no overlay
\* and changes neither isExpanded nor the value.
C4_DisabledSelectIgnoresClick ==
    [][disabled /\ lastOp' = "click" /\ nOpens' # nOpens =>
         /\ ov' = ov
         /\ isExpanded' = isExpanded
         /\ cmp'.value = cmp.value]_vars

\* C5: the cancel button of an action sheet or an alert emits exactly one
\* ionCancel and no ionChange and leaves the value, the text and every
\* option's selected flag as they were; no other handler emits ionCancel.
C5_CancelOnlyEmitsIonCancel ==
    [][IF lastOp' = "cancel"
       THEN /\ Len(OfType(cmp'.emitted, "ionCancel")) = 1
            /\ OfType(cmp'.emitted, "ionChange") = <<>>
            /\ cmp'.value = cmp.value
            /\ cmp'.text = cmp.text
            /\ cmp'.selected = cmp.selected
       ELSE OfType(cmp'.emitted, "ionCancel") = <<>>]_vars

\* C5 witness: cancel was pressed on a select that has a value and a checked
\* option.
C5_Witness ==
    /\ lastOp = "cancel"
    /\ OfType(cmp.emitted, "ionCancel") # <<>>
    /\ hasValue(cmp)
    /\ \E o \in Opts : cmp.selected[o]

\* C6: when valueChanged returns, with multiple an option is selected iff its
\* value is contained in the value; without multiple the first option in
\* document order whose value is contained in the value is selected and no
\* other; and text is the ', '-join of the texts of the selected options.
C6_ValueChangedChecksOptions ==
    cmp.post.ran =>
        LET p == cmp.post
            n == Len(p.childOpts)
            hit(k) == ValuesInclude(p.value, optVal[p.childOpts[k]])
        IN /\ \A k \in 1..n :
                p.selected[p.childOpts[k]] <=>
                    /\ hit(k)
                    /\ multiple \/ \A j \in 1..(k - 1) : ~hit(j)
           /\ ~multiple =>
                Cardinality({k \in 1..n : p.selected[p.childOpts[k]]}) <= 1
           /\ p.text = SelectedText(p)

\* C6 witness: valueChanged returned on a single-value select two of whose
\* options carry the value: the first is selected and the second is not.
C6_Witness ==
    /\ cmp.post.ran /\ ~multiple
    /\ \E j, k \in 1..Len(cmp.post.childOpts) :
         /\ j < k
         /\ ValuesInclude(cmp.post.value, optVal[cmp.post.childOpts[j]])
         /\ ValuesInclude(cmp.post.value, optVal[cmp.post.childOpts[k]])
         /\ cmp.post.selected[cmp.post.childOpts[j]]
         /\ ~cmp.post.selected[cmp.post.childOpts[k]]

\* C7: at most one overlay of the select is presented at any time, and the
\* overlay reference designates every overlay that is presented.
C7_AtMostOneOverlayPresented ==
    /\ Cardinality(Shown) <= 1
    /\ \A i \in Shown : overlay = i

====
